---- MODULE Spec2Model ----
(***************************************************************************)
(* Recording session controller of the speech-to-text extension: the       *)
(* useAudioRecorder hook (hooks/useAudioRecorder.ts), the audio utilities  *)
(* it calls (utils/audio.ts) and the sox capture process it spawns.        *)
(*                                                                         *)
(* React state is modelled as two records: `state` holds the values the    *)
(* setters have committed, `rendered` holds the values of the last render, *)
(* which are the values every closure created by that render reads.  Refs  *)
(* (recordingProcess, durationInterval) are read and written live.  An     *)
(* async function is cut at the awaits that yield to the event loop        *)
(* (fs.ensureDir, the 500 ms setTimeout); the code between two such awaits *)
(* is one atomic step.                                                     *)
(***************************************************************************)
EXTENDS Integers, Sequences, FiniteSets, TLC

\* ------------------------------------------------------------------ bounds
\* Number of startRecording()/stopRecording() invocations in a behaviour.
MaxCalls == 3
\* Largest value of the elapsed-time counter that is explored.
MaxDuration == 2
\* Number of generateAudioFilename() calls compared with each other.
MaxNames == 2
\* Last reading of Date.now() during a cleanup (it starts at StartClock).
MaxClock == 3
\* Number of transcribe operations in a behaviour.
MaxTranscribes == 2
\* Number of Stop Recording actions of the command in a behaviour.
MaxStops == 3
\* Number of Transcribe actions of the history view in a behaviour.
MaxJobs == 3

\* --------------------------------------------------------------- constants
MIN_VALID_FILE_SIZE == 1024
RECORDING_SAMPLE_RATE == 16000
RECORDING_MAX_DURATION == 60
SOX_CHANNELS == 1
SOX_BIT_DEPTH == 16
SOX_VERBOSE_LEVEL == 1
BYTES_PER_SAMPLE == 2

\* null of a path, of a ref and of a process exit code (killed by a signal).
NoPath == -1
NoRef == 0
NullCode == -1

\* File sizes the capture process can leave on disk: absent, empty, one byte
\* short of the threshold, at the threshold.
Missing == -1
FileSizes == {0, MIN_VALID_FILE_SIZE - 1, MIN_VALID_FILE_SIZE}

\* One timestamp, hence one path, per call that can launch.
Paths == 0..MaxCalls

\* Error messages (ErrorTypes of ../types and the literals of the hook).
NoError == "null"
SOX_NOT_INSTALLED == "SOX_NOT_INSTALLED"
RECORDING_PROCESS_ERROR == "RECORDING_PROCESS_ERROR"
RECORDING_START_ERROR == "RECORDING_START_ERROR"
RECORDING_STOP_ERROR == "RECORDING_STOP_ERROR"
NO_RECORDING_FILE == "NO_RECORDING_FILE"
AUDIO_FILE_MISSING == "AUDIO_FILE_MISSING"
AUDIO_FILE_EMPTY == "AUDIO_FILE_EMPTY"
AUDIO_FILE_TOO_SMALL == "AUDIO_FILE_TOO_SMALL"
AUDIO_FILE_INVALID_FORMAT == "AUDIO_FILE_INVALID_FORMAT"
AUDIO_FILE_VALIDATION_ERROR == "AUDIO_FILE_VALIDATION_ERROR"
UNEXPECTED_EXIT == "Recording process exited unexpectedly"
Valid == "valid"

ValidationErrors ==
  {AUDIO_FILE_MISSING, AUDIO_FILE_EMPTY, AUDIO_FILE_TOO_SMALL,
   AUDIO_FILE_INVALID_FORMAT, AUDIO_FILE_VALIDATION_ERROR}

\* Inputs of the audio utilities: file sizes around the validation threshold
\* and around the rounding of the size-based duration, and the outputs of
\* `sox --i -D` around the rounding of the probed duration.
AudioSizes ==
  {Missing, 0, 1, MIN_VALID_FILE_SIZE - 1, MIN_VALID_FILE_SIZE,
   15999, 16000, 31999, 96000}
DurationTenths == {-10, 0, 4, 5, 16, 25, 30}
ProbeOutputs ==
  {[kind |-> "throws", tenths |-> 0], [kind |-> "nan", tenths |-> 0]}
  \cup {[kind |-> "number", tenths |-> t] : t \in DurationTenths}
AudioFiles ==
  {f \in [size : AudioSizes, statThrows : BOOLEAN, probeOk : BOOLEAN,
          probe : ProbeOutputs] :
     f.size = Missing => (~f.probeOk /\ f.probe.kind = "throws")}
NoAudioFile ==
  [size |-> Missing, statThrows |-> FALSE, probeOk |-> FALSE,
   probe |-> [kind |-> "throws", tenths |-> 0]]
NotCalled == "none"
NoAudioResult ==
  [validation |-> NotCalled, called |-> FALSE, duration |-> [ok |-> FALSE, seconds |-> 0]]

\* Files of the temp directory: two recordings and one sidecar.  A name is
\* its base and its extension.
TempNames ==
  {[base |-> "a", ext |-> "wav"], [base |-> "b", ext |-> "wav"],
   [base |-> "a", ext |-> "json"]}
StartClock == 2
Mtimes == 0..StartClock
\* maxAge in ms: a number, or Infinity.
MaxAges ==
  {[finite |-> TRUE, ms |-> 0], [finite |-> TRUE, ms |-> 1],
   [finite |-> FALSE, ms |-> 0]}
NoCleanup ==
  [pc |-> "idle", now |-> 0, maxAge |-> [finite |-> TRUE, ms |-> 0],
   listed |-> {}, todo |-> {}, seen |-> {}, threw |-> FALSE]

\* The recordings, the value of an option that was not given, and the
\* languages of the preference and of the per-call override.
AudioNames == {f \in TempNames : f.ext = "wav"}
NoName == [base |-> "", ext |-> ""]
\* audioFilePath.replace(/\.[^.]+$/, ".json") and
\* filePath.replace(/\.wav$/, ".json"): both change a.wav to a.json.
SidecarPath(audioFilePath) == [base |-> audioFilePath.base, ext |-> "json"]
SidecarNames == {SidecarPath(f) : f \in AudioNames}
Undefined == "undefined"
Languages == {Undefined, "", "auto", "en", "es"}
\* A sidecar file: whether it exists, the keys of its JSON object, the text
\* (numbered by the service reply it came from) and the audioFile value.
NoSidecar == [exists |-> FALSE, keys |-> {}, text |-> 0, audioFile |-> NoName]
\* An error thrown by the transcription client: its message, as an
\* identifier of the text and the patterns the text includes.
UpstreamErrors ==
  [text : {"upstream"},
   includes : {{}, {"429"}, {"rate limit"}, {"too many requests"}, {"400"},
               {"429", "400"}, {"rate limit", "400"}}]
NoUpstream == [text |-> "", includes |-> {}]
\* The error transcribeAudio throws: its message and, for the generic
\* message, the upstream message appended to it.
NoThrown == [message |-> "", upstream |-> NoUpstream]
NoTranscription ==
  [pc |-> "idle", origin |-> "none", file |-> NoName,
   overrideLanguage |-> Undefined, language |-> Undefined, sent |-> FALSE, serviceOk |-> FALSE,
   text |-> 0, before |-> NoSidecar, outcome |-> "none",
   caught |-> NoUpstream, thrown |-> NoThrown]

VARIABLES
  soxInstalled,      \* whether checkSoxInstalled() finds the capture tool
  mounted,           \* the host component is mounted
  state,             \* React state as committed by the setters
  rendered,          \* React state as seen by the closures of the last render
  recordingProcess,  \* ref: id of the process, or NoRef
  durationInterval,  \* ref: id of the timer, or NoRef
  procs,             \* every process spawned, in spawn order
  timers,            \* ids of the intervals that are scheduled
  files,             \* size on disk of each path, or Missing
  calls,             \* the startRecording/stopRecording calls in flight
  returned,          \* the call that returned last, with its result
  nCalls,            \* number of calls made so far
  now                \* the clock read by generateAudioFilename

recorderVars == <<soxInstalled, mounted, state, rendered, recordingProcess,
                  durationInterval, procs, timers, files, calls, returned,
                  nCalls, now>>

\* State of the audio utilities when they are called on their own.
VARIABLES
  audioFile,         \* the file validateAudioFile/getAudioDuration is given
  audioResult        \* what the two functions returned for it

audioVars == <<audioFile, audioResult>>

\* State of generateAudioFilename when it is called on its own.
VARIABLES
  named              \* the calls made: the Date each read, the path returned

namingVars == <<named>>

\* State of the temp directory and of a cleanupOldAudioFiles() call.
VARIABLES
  tempDir,           \* modification time of each file name, or Missing
  clock,             \* Date.now()
  cleanup            \* the call: its position, arguments, list and log

cleanupVars == <<tempDir, clock, cleanup>>

\* State of transcription: the preferences, the sidecar files on disk and
\* the transcribe operation of a command.
VARIABLES
  preferences,       \* getPreferenceValues(): apiKey set or not, language
  sidecars,          \* content of the .json sidecar of each audio file
  transcription,     \* the transcribe operation in progress or ended last
  nTranscribes       \* number of transcribe operations started

transcriptionVars == <<preferences, sidecars, transcription, nTranscribes>>

\* State of the recording command (the form): its isTranscribing state and
\* the handleStopRecording() invocations.
VARIABLES
  isTranscribing,    \* useState(false) of Command
  handlers,          \* the handleStopRecording() invocations, in order
  submissions        \* the transcribeAudio() calls made: handler and file

commandVars == <<isTranscribing, handlers, submissions>>

\* State of the history view: the activeTranscriptions state and the
\* handleTranscribe() invocations.
VARIABLES
  activeTranscriptions,  \* useState({}) of TranscriptionHistory, by file
  jobs                   \* the handleTranscribe() invocations, in order

historyVars == <<activeTranscriptions, jobs>>

libVars == <<audioVars, namingVars, cleanupVars, transcriptionVars,
            commandVars,
            historyVars>>

vars == <<recorderVars, libVars>>

\* ------------------------------------------------------ audio utilities

\* generateAudioFilename: `recording-<timestamp>.wav`, a function of the
\* clock alone; a path is identified by its timestamp.
generateAudioFilename(t) == t

\* buildSoxCommand(outputPath): the arguments given to sox.
buildSoxCommand(outputPath) ==
  << "-d",
     "-c", ToString(SOX_CHANNELS),
     "-r", ToString(RECORDING_SAMPLE_RATE),
     "-b", ToString(SOX_BIT_DEPTH),
     "-e", "signed-integer",
     "-V" \o ToString(SOX_VERBOSE_LEVEL),
     "path:" \o ToString(outputPath) >>

\* createRecordingProcess(soxPath, filePath, duration): the arguments given
\* to sox by the other launcher of utils/audio.ts.
createRecordingProcess(filePath, duration) ==
  << "-d",
     "-r", ToString(RECORDING_SAMPLE_RATE),
     "path:" \o ToString(filePath),
     "trim", "0", ToString(duration) >>

\* The arguments end with `trim 0 <seconds>`: sox stops by itself.
HasTrim(args, seconds) ==
  /\ Len(args) >= 3
  /\ args[Len(args) - 2] = "trim"
  /\ args[Len(args) - 1] = "0"
  /\ args[Len(args)] = ToString(seconds)

checkSoxInstalled_AlwaysFound == TRUE

\* checkSoxInstalled(): whether the lookup of the capture tool finds it.
checkSoxInstalled == soxInstalled

validateAudioFile_InclusiveMinimum(size, statThrows, soxPath, probeOk) ==
  IF size = Missing THEN AUDIO_FILE_MISSING
  ELSE IF statThrows THEN AUDIO_FILE_VALIDATION_ERROR
  ELSE IF size = 0 THEN AUDIO_FILE_EMPTY
  ELSE IF size <= MIN_VALID_FILE_SIZE THEN AUDIO_FILE_TOO_SMALL
  ELSE IF soxPath /\ ~probeOk THEN AUDIO_FILE_INVALID_FORMAT
  ELSE Valid

validateAudioFile_ProbeRequired(size, statThrows, soxPath, probeOk) ==
  IF size = Missing THEN AUDIO_FILE_MISSING
  ELSE IF statThrows THEN AUDIO_FILE_VALIDATION_ERROR
  ELSE IF size = 0 THEN AUDIO_FILE_EMPTY
  ELSE IF size < MIN_VALID_FILE_SIZE THEN AUDIO_FILE_TOO_SMALL
  ELSE IF ~soxPath \/ ~probeOk THEN AUDIO_FILE_INVALID_FORMAT
  ELSE Valid

validateAudioFile_NoMinimum(size, statThrows, soxPath, probeOk) ==
  IF size = Missing THEN AUDIO_FILE_MISSING
  ELSE IF statThrows THEN AUDIO_FILE_VALIDATION_ERROR
  ELSE IF size = 0 THEN AUDIO_FILE_EMPTY
  ELSE IF soxPath /\ ~probeOk THEN AUDIO_FILE_INVALID_FORMAT
  ELSE Valid

\* validateAudioFile(filePath): size is the file's size or Missing,
\* statThrows an fs failure, soxPath the result of checkSoxInstalled,
\* probeOk whether `sox --i` accepts the file.
validateAudioFile(size, statThrows, soxPath, probeOk) ==
  IF size = Missing THEN AUDIO_FILE_MISSING
  ELSE IF statThrows THEN AUDIO_FILE_VALIDATION_ERROR
  ELSE IF size = 0 THEN AUDIO_FILE_EMPTY
  ELSE IF size < MIN_VALID_FILE_SIZE THEN AUDIO_FILE_TOO_SMALL
  ELSE IF soxPath /\ ~probeOk THEN AUDIO_FILE_INVALID_FORMAT
  ELSE Valid

\* ------------------------------------------------------------- the hook

\* Math.round(num / den) for den > 0: the nearest integer, a half going up.
MathRound_Truncates(num, den) == num \div den

MathRound(num, den) == (2 * num + den) \div (2 * den)

\* A duration result: returned seconds, or the call threw.
Seconds(n) == [ok |-> TRUE, seconds |-> n]
Throws == [ok |-> FALSE, seconds |-> 0]

\* estimateDurationFromFileSize(filePath): fs.stat, then
\* Math.round(size / (sampleRate * bytesPerSample)).
estimateDurationFromFileSize(size, statThrows) ==
  IF size = Missing \/ statThrows
  THEN Throws
  ELSE Seconds(MathRound(size, RECORDING_SAMPLE_RATE * BYTES_PER_SAMPLE))

\* getAudioDuration(filePath): probe is what `sox --i -D` does: it throws,
\* prints text parseFloat cannot read ("nan"), or prints a number, held in
\* tenths of a second.
getAudioDuration(size, statThrows, soxPath, probe) ==
  IF ~soxPath
  THEN estimateDurationFromFileSize(size, statThrows)
  ELSE IF probe.kind = "number" /\ probe.tenths > 0
  THEN Seconds(MathRound(probe.tenths, 10))
  ELSE estimateDurationFromFileSize(size, statThrows)

InitialState ==
  [isRecording |-> FALSE, recordingDuration |-> 0,
   recordingPath |-> NoPath, error |-> NoError]

\* What the closures of a render read of the state: isRecording (lines 48,
\* 74, 123, 164) and recordingPath (line 168).
Closure(s) == [isRecording |-> s.isRecording, recordingPath |-> s.recordingPath]

\* The closure of the first render, which the mount effect (deps []) keeps.
FirstRender == Closure(InitialState)

\* A setter called after the component was unmounted changes nothing.
Commit(s) == IF mounted THEN s ELSE state

\* A call of startRecording or stopRecording: the values its closure holds
\* (cIsRecording, cPath), where it is suspended (pc), the process it spawned
\* or killed, what it has done so far and the path it returns (or null).
NewCall(kind, closure) ==
  [kind |-> kind, pc |-> "done", cIsRecording |-> closure.isRecording,
   cPath |-> closure.recordingPath, proc |-> NoRef, result |-> NoPath,
   steps |-> << >>]

NoCall == NewCall("none", FirstRender)

Remove(seq, i) == SubSeq(seq, 1, i - 1) \o SubSeq(seq, i + 1, Len(seq))

\* A process that was spawned and has neither exited nor failed to launch.
Alive(p) == procs[p].status = "running"

\* No call is inside a synchronous block: handlers run to completion, so no
\* other callback starts while stopRecording is between kill() and the await.
Quiescent == \A i \in 1..Len(calls) : calls[i].pc # "clearInterval"

\* Line 74: the guard of startRecording, on the closure's isRecording.
StartRejected(cIsRecording) == cIsRecording

\* Line 164: the guard of stopRecording, on the closure's isRecording and
\* the live ref.
StopRejected_ClosureOnly(cIsRecording, ref) == ~cIsRecording

StopRejected(cIsRecording, ref) == ~cIsRecording \/ ref = NoRef

CloseIsUnexpected_AnyNonZero(code, cIsRecording) == code # 0

\* Line 123: the test of the close handler, on the closure's isRecording.
CloseIsUnexpected(code, cIsRecording) == code # 0 /\ cIsRecording

\* A clearInterval that cancels nothing.
ClearedTimers_Keeps(ts, ref) == ts

\* A stop that reads the recording path when it validates, not when it
\* is called.
ValidatedPath_Live(call, current) == current.recordingPath

\* Line 168: `const currentRecordingPath = recordingPath`, the path of the
\* closure, read before the signal is sent and used after the delay.
ValidatedPath(call, current) == call.cPath

\* Lines 111-114, 127-130, 177-180: clearInterval(durationInterval.current).
ClearedTimers(ts, ref) == IF ref # NoRef THEN ts \ {ref} ELSE ts

\* After the first render and the mount effect (lines 36-45).
RecorderInit ==
  /\ soxInstalled \in BOOLEAN
  /\ mounted = TRUE
  /\ state = [InitialState EXCEPT
                !.error = IF checkSoxInstalled THEN NoError
                                               ELSE SOX_NOT_INSTALLED]
  /\ rendered = Closure(InitialState)
  /\ recordingProcess = NoRef
  /\ durationInterval = NoRef
  /\ procs = << >>
  /\ timers = {}
  /\ files = [p \in Paths |-> Missing]
  /\ calls = << >>
  /\ returned = NoCall
  /\ nCalls = 0
  /\ now = 0

\* The audio utilities have not been called.
AudioIdle ==
  /\ audioFile = NoAudioFile
  /\ audioResult = NoAudioResult

\* generateAudioFilename has not been called on its own.
NamingIdle == named = << >>

\* cleanupOldAudioFiles has not been called; the directory is empty.
CleanupIdle ==
  /\ tempDir = [f \in TempNames |-> Missing]
  /\ clock = 0
  /\ cleanup = NoCleanup

\* No transcription has been asked for; no sidecar exists.
TranscriptionIdle ==
  /\ preferences = [apiKey |-> TRUE, language |-> Undefined]
  /\ sidecars = [j \in SidecarNames |-> NoSidecar]
  /\ transcription = NoTranscription
  /\ nTranscribes = 0

\* The command has rendered; Stop Recording has not been used.
CommandIdle ==
  /\ isTranscribing = FALSE
  /\ handlers = << >>
  /\ submissions = << >>

\* The history view has rendered; Transcribe has not been used.  A file
\* without an entry in activeTranscriptions reads as not active.
HistoryIdle ==
  /\ activeTranscriptions = [f \in AudioNames |-> FALSE]
  /\ jobs = << >>

Init ==
  /\ RecorderInit
  /\ HistoryIdle
  /\ CommandIdle
  /\ AudioIdle
  /\ NamingIdle
  /\ CleanupIdle
  /\ TranscriptionIdle

\* React re-renders: the closures created from now on see the committed state.
Render ==
  /\ mounted
  /\ Quiescent
  /\ rendered # Closure(state)
  /\ rendered' = Closure(state)
  /\ UNCHANGED <<soxInstalled, mounted, state, recordingProcess,
                 durationInterval, procs, timers, files, calls, returned,
                 nCalls, now>>
  /\ UNCHANGED libVars

\* startRecording(), up to the await of ensureTempDirectory().
StartCall ==
  /\ mounted
  /\ Quiescent
  /\ nCalls < MaxCalls
  /\ nCalls' = nCalls + 1
  /\ LET c == NewCall("start", rendered)
         cleared == [state EXCEPT !.error = NoError]
     IN  IF StartRejected(c.cIsRecording)
         THEN /\ state' = Commit(cleared)
              /\ returned' = [c EXCEPT !.steps = <<"alreadyRecording">>]
              /\ calls' = calls
         ELSE IF ~checkSoxInstalled
         THEN /\ state' = Commit([cleared EXCEPT !.error = SOX_NOT_INSTALLED])
              /\ returned' = [c EXCEPT !.steps = <<"soxNotInstalled">>]
              /\ calls' = calls
         ELSE /\ state' = Commit(cleared)
              /\ calls' = Append(calls, [c EXCEPT !.pc = "ensureDir"])
              /\ returned' = returned
  /\ UNCHANGED <<soxInstalled, mounted, rendered, recordingProcess,
                 durationInterval, procs, timers, files, now>>
  /\ UNCHANGED libVars

\* startRecording(), from the return of ensureTempDirectory() to the end:
\* the path is generated, sox is spawned, the handlers are registered with
\* the closure of this call, the interval is scheduled.  The clock moves on
\* after a launch: two launches are at least a millisecond apart.
StartLaunch(i, dirOk) ==
  /\ Quiescent
  /\ calls[i].kind = "start"
  /\ calls[i].pc = "ensureDir"
  /\ calls' = Remove(calls, i)
  /\ IF ~dirOk
     THEN /\ state' = Commit([state EXCEPT !.error = RECORDING_START_ERROR])
          /\ returned' = [calls[i] EXCEPT !.pc = "done", !.steps = <<"startError">>]
          /\ UNCHANGED <<recordingProcess, durationInterval, procs, timers, now>>
     ELSE LET outputPath == generateAudioFilename(now)
              id == Len(procs) + 1
          IN  /\ procs' = Append(procs,
                    [status |-> "running", signalled |-> FALSE,
                     file |-> outputPath, args |-> buildSoxCommand(outputPath),
                     cIsRecording |-> calls[i].cIsRecording,
                     exitCode |-> NullCode])
              /\ recordingProcess' = id
              /\ timers' = timers \cup {id}
              /\ durationInterval' = id
              /\ state' = Commit([state EXCEPT !.recordingPath = outputPath,
                                               !.recordingDuration = 0,
                                               !.isRecording = TRUE])
              /\ returned' = [calls[i] EXCEPT !.pc = "done", !.proc = id,
                                              !.result = outputPath,
                                              !.steps = <<"spawn", "setInterval">>]
              /\ now' = now + 1
  /\ UNCHANGED <<soxInstalled, mounted, rendered, files, nCalls>>
  /\ UNCHANGED libVars

\* The interval callback: setRecordingDuration(prev => prev + 1).
Tick(t) ==
  /\ Quiescent
  /\ t \in timers
  /\ state.recordingDuration < MaxDuration
  /\ state' = Commit([state EXCEPT !.recordingDuration = @ + 1])
  /\ UNCHANGED <<soxInstalled, mounted, rendered, recordingProcess,
                 durationInterval, procs, timers, files, calls, returned,
                 nCalls, now>>
  /\ UNCHANGED libVars

\* sox writes to its output file (also while it handles the signal).
ProcWrite(p, size) ==
  /\ Quiescent
  /\ Alive(p)
  /\ size > files[procs[p].file]
  /\ files' = [files EXCEPT ![procs[p].file] = size]
  /\ UNCHANGED <<soxInstalled, mounted, state, rendered, recordingProcess,
                 durationInterval, procs, timers, calls, returned, nCalls,
                 now>>
  /\ UNCHANGED libVars

\* The 'error' event of a child process that could not be launched, and its
\* handler (lines 106-117).  The event is emitted on the tick after spawn(),
\* before another call can launch or stop: the refs are those of this launch.
ProcError(p) ==
  /\ Quiescent
  /\ Alive(p)
  /\ ~procs[p].signalled
  /\ files[procs[p].file] = Missing
  /\ recordingProcess = p
  /\ durationInterval = p
  /\ procs' = [procs EXCEPT ![p].status = "failed"]
  /\ timers' = ClearedTimers(timers, durationInterval)
  /\ durationInterval' = NoRef
  /\ state' = Commit([state EXCEPT !.error = RECORDING_PROCESS_ERROR,
                                   !.isRecording = FALSE])
  /\ UNCHANGED <<soxInstalled, mounted, rendered, recordingProcess,
                 files, calls, returned, nCalls, now>>
  /\ UNCHANGED libVars

\* The process exits and its 'close' handler runs (lines 119-134).
ProcExit(p, code) ==
  /\ Quiescent
  /\ Alive(p)
  /\ code = NullCode => procs[p].signalled
  /\ procs' = [procs EXCEPT ![p].status = "exited", ![p].exitCode = code]
  /\ IF CloseIsUnexpected(code, procs[p].cIsRecording)
     THEN /\ timers' = ClearedTimers(timers, durationInterval)
          /\ durationInterval' = NoRef
          /\ state' = Commit([state EXCEPT !.error = UNEXPECTED_EXIT,
                                           !.isRecording = FALSE])
     ELSE UNCHANGED <<timers, durationInterval, state>>
  /\ UNCHANGED <<soxInstalled, mounted, rendered, recordingProcess,
                 files, calls, returned, nCalls, now>>
  /\ UNCHANGED libVars

\* stopRecording() of the given closure, lines 164-174: the guard, then
\* recordingProcess.current.kill() and the ref set to null.  kill() sends
\* the signal only to a process that is still alive; killThrows is kill()
\* raising, which the catch of lines 208-215 handles.
StopInvoke(closure, killThrows) ==
  /\ nCalls' = nCalls + 1
  /\ LET c == NewCall("stop", closure)
     IN  IF StopRejected(c.cIsRecording, recordingProcess)
         THEN /\ returned' = [c EXCEPT !.steps = <<"notRecording">>]
              /\ UNCHANGED <<state, recordingProcess, procs, calls>>
         ELSE IF killThrows
         THEN /\ state' = Commit([state EXCEPT !.error = RECORDING_STOP_ERROR,
                                               !.isRecording = FALSE])
              /\ returned' = [c EXCEPT !.proc = recordingProcess,
                                       !.steps = <<"killThrew">>]
              /\ UNCHANGED <<recordingProcess, procs, calls>>
         ELSE /\ procs' = [procs EXCEPT ![recordingProcess].signalled =
                                           @ \/ Alive(recordingProcess)]
              /\ recordingProcess' = NoRef
              /\ calls' = Append(calls, [c EXCEPT !.pc = "clearInterval",
                                                  !.proc = recordingProcess,
                                                  !.steps = <<"kill">>])
              /\ UNCHANGED <<state, returned>>
  /\ UNCHANGED <<soxInstalled, rendered, durationInterval, timers, files, now>>

\* The caller invokes the stopRecording of the last render.
StopCall(killThrows) ==
  /\ mounted
  /\ Quiescent
  /\ nCalls < MaxCalls
  /\ StopInvoke(rendered, killThrows)
  /\ UNCHANGED mounted
  /\ UNCHANGED libVars

\* stopRecording(), lines 176-185: the interval is cleared, isRecording is
\* set to false, and the call awaits the 500 ms delay.
StopClearInterval(i) ==
  /\ calls[i].kind = "stop"
  /\ calls[i].pc = "clearInterval"
  /\ timers' = ClearedTimers(timers, durationInterval)
  /\ durationInterval' = NoRef
  /\ state' = Commit([state EXCEPT !.isRecording = FALSE])
  /\ calls' = [calls EXCEPT ![i].pc = "delay",
                            ![i].steps = Append(@, "clearInterval")]
  /\ UNCHANGED <<soxInstalled, mounted, rendered, recordingProcess,
                 procs, files, returned, nCalls, now>>
  /\ UNCHANGED libVars

\* stopRecording(), lines 187-207: after the delay the file of the closure's
\* recordingPath is validated.
StopValidate(i, statThrows, probeOk) ==
  /\ Quiescent
  /\ calls[i].kind = "stop"
  /\ calls[i].pc = "delay"
  /\ calls' = Remove(calls, i)
  /\ LET currentRecordingPath == ValidatedPath(calls[i], state)
         v == validateAudioFile(files[currentRecordingPath], statThrows,
                                checkSoxInstalled, probeOk)
         c == [calls[i] EXCEPT !.pc = "done"]
     IN  IF currentRecordingPath = NoPath
         THEN /\ state' = Commit([state EXCEPT !.error = NO_RECORDING_FILE])
              /\ returned' = [c EXCEPT !.steps = Append(@, "noFile")]
         ELSE IF v # Valid
         THEN /\ state' = Commit([state EXCEPT !.error = v])
              /\ returned' = [c EXCEPT !.steps = Append(@, "validate")]
         ELSE /\ state' = state
              /\ returned' = [c EXCEPT !.result = currentRecordingPath,
                                       !.steps = Append(@, "validate")]
  /\ UNCHANGED <<soxInstalled, mounted, rendered, recordingProcess,
                 durationInterval, procs, timers, files, nCalls, now>>
  /\ UNCHANGED libVars

\* The host tears the component down: the cleanup of the mount effect runs
\* with the closure of the first render (lines 47-51).
Unmount ==
  /\ mounted
  /\ Quiescent
  /\ mounted' = FALSE
  /\ IF FirstRender.isRecording
     THEN \E killThrows \in BOOLEAN : StopInvoke(FirstRender, killThrows)
     ELSE UNCHANGED <<soxInstalled, state, rendered, recordingProcess,
                      durationInterval, procs, timers, files, calls,
                      returned, nCalls, now>>
  /\ UNCHANGED libVars

Next ==
  \/ Render
  \/ StartCall
  \/ \E i \in 1..Len(calls), dirOk \in BOOLEAN : StartLaunch(i, dirOk)
  \/ \E t \in timers : Tick(t)
  \/ \E p \in 1..Len(procs), size \in FileSizes : ProcWrite(p, size)
  \/ \E p \in 1..Len(procs) : ProcError(p)
  \/ \E p \in 1..Len(procs), code \in {0, 1, NullCode} : ProcExit(p, code)
  \/ \E killThrows \in BOOLEAN : StopCall(killThrows)
  \/ \E i \in 1..Len(calls) : StopClearInterval(i)
  \/ \E i \in 1..Len(calls), statThrows \in BOOLEAN, probeOk \in BOOLEAN :
       StopValidate(i, statThrows, probeOk)
  \/ Unmount

Spec == Init /\ [][Next]_vars

\* ------------------------------------------------------------------ claims

\* Processes that are capturing: spawned, not exited, not sent a signal.
Capturing == {p \in 1..Len(procs) : Alive(p) /\ ~procs[p].signalled}

\* The step is an invocation of startRecording().
StartCalled ==
  /\ nCalls' = nCalls + 1
  /\ \/ /\ Len(calls') = Len(calls) + 1
        /\ calls'[Len(calls')].kind = "start"
     \/ /\ calls' = calls
        /\ returned'.kind = "start"

\* C1: in every reachable state at most one capture process started by the
\* controller is capturing and at most one elapsed-time timer is scheduled.
C1_AtMostOneRecording ==
  /\ Cardinality(Capturing) <= 1
  /\ Cardinality(timers) <= 1

\* C2: a startRecording() invoked while the session started by an earlier
\* startRecording() is still recording (no stop, no failure in between) is
\* rejected as already recording: it returns null, is not queued, spawns no
\* process and sends no signal to the process of the first session.
C2_SecondStartRejected ==
  [][(StartCalled /\ state.isRecording /\ recordingProcess \in Capturing)
       => /\ returned'.kind = "start"
          /\ returned'.steps = <<"alreadyRecording">>
          /\ returned'.result = NoPath
          /\ calls' = calls
          /\ procs' = procs]_vars

\* C3: when the capture process of the recording session exits by itself
\* with a non-zero code (stop() was not called), the session leaves
\* Recording with the unexpected-termination error and its timer is cancelled.
C3_UnexpectedExitFails ==
  [][\A p \in 1..Len(procs) :
       ( /\ mounted
         /\ state.isRecording
         /\ recordingProcess = p
         /\ p \in Capturing
         /\ procs'[p].status = "exited"
         /\ procs'[p].exitCode # 0 )
       => /\ ~state'.isRecording
          /\ state'.error = UNEXPECTED_EXIT
          /\ p \notin timers']_vars

\* C4: the exit event of a process that stopRecording() killed never records
\* an error, whatever the exit code or signal and whether or not the state
\* update of stop() has been rendered: the step leaves the state unchanged.
C4_StopExitSuppressed ==
  [][\A p \in 1..Len(procs) :
       (Alive(p) /\ procs[p].signalled /\ procs'[p].status = "exited")
       => state' = state]_vars

\* C4 witness: a process that stop() killed has exited with a non-zero code
\* (or by the signal) while the stop's state update was not yet rendered.
C4_Witness ==
  \E p \in 1..Len(procs) :
    /\ procs[p].signalled
    /\ procs[p].status = "exited"
    /\ procs[p].exitCode # 0
    /\ rendered.isRecording
    /\ state.error = NoError

\* C5: when the capture tool cannot be located, startRecording() returns null
\* with the sox-not-installed error recorded, the session is not recording,
\* no timer is scheduled and no process was ever spawned.
C5_ToolNotFound ==
  ~soxInstalled =>
    /\ Len(procs) = 0
    /\ timers = {}
    /\ calls = << >>
    /\ ~state.isRecording
    /\ state.error = SOX_NOT_INSTALLED
    /\ returned.kind = "start" =>
         (returned.result = NoPath /\ returned.steps = <<"soxNotInstalled">>)

\* C5 witness: startRecording() has returned with the tool absent.
C5_Witness ==
  /\ ~soxInstalled
  /\ returned.kind = "start"
  /\ returned.steps = <<"soxNotInstalled">>

\* The step is a stopRecording() returning after its validation.
StopReturned ==
  /\ Len(calls') = Len(calls) - 1
  /\ returned'.kind = "stop"

\* C6: a stopRecording() that was called while the state was Recording and
\* returns a path has sent the signal, then cancelled the timer, then
\* validated, and the path it returns is the file of the session it stopped
\* (the process it sent the signal to), which no longer captures nor ticks.
C6_StopOrderAndPath ==
  /\ \A i \in 1..Len(calls) :
       calls[i].kind = "stop" =>
         /\ calls[i].proc \notin Capturing
         /\ calls[i].pc = "delay" => calls[i].proc \notin timers
  /\ (returned.kind = "stop" /\ returned.result # NoPath)
       => /\ returned.steps = <<"kill", "clearInterval", "validate">>
          /\ returned.proc \notin Capturing
          /\ returned.proc \notin timers
          /\ returned.result = procs[returned.proc].file

\* C7: when the file of a stopping session is missing, empty or too small,
\* or validation fails otherwise, stopRecording() returns null and records
\* the validation error of that file; the step does not set isRecording
\* (which the stop had set to false before the delay) and changes no file;
\* and no step of the program ever deletes or truncates a file.
C7_ValidationFailureKeepsFile ==
  [][/\ \A f \in Paths : files'[f] >= files[f]
     /\ \A i \in 1..Len(calls) :
          (mounted /\ calls[i].pc = "clearInterval" /\ Len(calls') = Len(calls)
             /\ calls'[i].pc = "delay")
          => ~state'.isRecording
     /\ (StopReturned /\ mounted) =>
          LET size == files[returned'.cPath]
          IN  /\ files' = files
              /\ state'.isRecording = state.isRecording
              /\ size < MIN_VALID_FILE_SIZE => returned'.result = NoPath
              /\ returned'.result = NoPath =>
                   /\ state'.error \in ValidationErrors
                   /\ size = Missing => state'.error = AUDIO_FILE_MISSING
                   /\ state'.error = AUDIO_FILE_MISSING => size = Missing
                   /\ state'.error = AUDIO_FILE_EMPTY => size = 0
                   /\ state'.error = AUDIO_FILE_TOO_SMALL =>
                        (0 < size /\ size < MIN_VALID_FILE_SIZE)
                   /\ state'.error = AUDIO_FILE_INVALID_FORMAT =>
                        size >= MIN_VALID_FILE_SIZE
              /\ returned'.result # NoPath => state'.error = state.error]_vars

\* C7 witness: a stop has returned null with the too-small error recorded
\* while the short file is still on disk.
C7_Witness ==
  /\ returned.kind = "stop"
  /\ returned.steps = <<"kill", "clearInterval", "validate">>
  /\ returned.result = NoPath
  /\ state.error = AUDIO_FILE_TOO_SMALL
  /\ ~state.isRecording
  /\ files[returned.cPath] = MIN_VALID_FILE_SIZE - 1

\* C8: when the component is unmounted while the session is Recording, the
\* capture process is sent the termination signal and the timer is cleared,
\* so no capturing process and no timer is left by the unmount.
C8_UnmountStops ==
  [][(mounted /\ ~mounted' /\ state.isRecording)
       => (Capturing' = {} /\ timers' = {})]_vars

\* C9: in every reachable state of the mounted component where the session
\* is not Recording, no elapsed-time timer is scheduled.
C9_NoTimerWhenNotRecording ==
  (mounted /\ ~state.isRecording) => timers = {}

\* C10: every capture process launched by startRecording() was given the
\* trailing `trim 0 <RECORDING_MAX_DURATION>` arguments.
C10_EveryLaunchHasTrim ==
  \A p \in 1..Len(procs) : HasTrim(procs[p].args, RECORDING_MAX_DURATION)

\* The session of process p has ended: launch failure, a stop, or an exit of
\* its own with a non-zero code.
SessionEnded(p) ==
  \/ procs[p].status = "failed"
  \/ /\ procs[p].status = "exited"
     /\ procs[p].signalled \/ procs[p].exitCode # 0

\* C11: once every session has ended (failure or stop), no call is in flight
\* and the caller has rendered the current state, a startRecording() with
\* sox available is accepted with the previous error cleared; and every
\* launch begins a fresh session: a path no earlier process was given, the
\* counter at 0, the state Recording.
C11_StartAgainAfterEnd ==
  [][/\ (/\ StartCalled
         /\ soxInstalled
         /\ calls = << >>
         /\ rendered = Closure(state)
         /\ \A p \in 1..Len(procs) : SessionEnded(p))
        => (Len(calls') = 1 /\ state'.error = NoError)
     /\ (mounted /\ Len(procs') = Len(procs) + 1)
        => /\ \A p \in 1..Len(procs) :
                procs[p].file # procs'[Len(procs')].file
           /\ state'.recordingDuration = 0
           /\ state'.isRecording]_vars

\* The step is an invocation of stopRecording().
StopCalled ==
  /\ nCalls' = nCalls + 1
  /\ \/ /\ Len(calls') = Len(calls) + 1
        /\ calls'[Len(calls')].kind = "stop"
     \/ /\ calls' = calls
        /\ returned'.kind = "stop"

AudioInit ==
  /\ RecorderInit
  /\ HistoryIdle
  /\ CommandIdle
  /\ audioFile \in AudioFiles
  /\ audioResult = NoAudioResult
  /\ NamingIdle
  /\ CleanupIdle
  /\ TranscriptionIdle

\* validateAudioFile(filePath) on the file.
CallValidateAudioFile ==
  /\ audioResult.validation = NotCalled
  /\ audioResult' =
       [audioResult EXCEPT !.validation =
          validateAudioFile(audioFile.size, audioFile.statThrows,
                            checkSoxInstalled, audioFile.probeOk)]
  /\ UNCHANGED <<recorderVars, historyVars, commandVars, audioFile, namingVars, cleanupVars,
                 transcriptionVars>>

\* getAudioDuration(filePath) on the file.
CallGetAudioDuration ==
  /\ ~audioResult.called
  /\ audioResult' =
       [audioResult EXCEPT
          !.called = TRUE,
          !.duration = getAudioDuration(audioFile.size, audioFile.statThrows,
                                        checkSoxInstalled, audioFile.probe)]
  /\ UNCHANGED <<recorderVars, historyVars, commandVars, audioFile, namingVars, cleanupVars,
                 transcriptionVars>>

AudioNext ==
  \/ CallValidateAudioFile
  \/ CallGetAudioDuration

AudioSpec == AudioInit /\ [][AudioNext]_vars

\* C13: when stat succeeds, validateAudioFile classifies by existence and
\* size in this order: a missing path is AUDIO_FILE_MISSING, 0 bytes is
\* AUDIO_FILE_EMPTY, 1 to 1023 bytes is AUDIO_FILE_TOO_SMALL, and 1024 bytes
\* or more is valid when sox is absent or accepts the file.
C13_ValidateBySize ==
  (audioResult.validation # NotCalled /\ ~audioFile.statThrows) =>
    LET size == audioFile.size
        v == audioResult.validation
    IN  /\ MIN_VALID_FILE_SIZE = 1024
        /\ size = Missing => v = AUDIO_FILE_MISSING
        /\ size = 0 => v = AUDIO_FILE_EMPTY
        /\ (1 <= size /\ size <= 1023) => v = AUDIO_FILE_TOO_SMALL
        /\ (size >= 1024 /\ (~soxInstalled \/ audioFile.probeOk))
             => v = Valid

\* C13 witness: a file of exactly 1024 bytes was found valid.
C13_Witness ==
  /\ audioFile.size = 1024
  /\ ~audioFile.statThrows
  /\ audioResult.validation = Valid

\* C14: for an existing file of at least the threshold whose stat succeeds,
\* validateAudioFile returns valid when sox is absent, valid when sox
\* accepts the file and AUDIO_FILE_INVALID_FORMAT when sox rejects it; an
\* exception inside it is returned as AUDIO_FILE_VALIDATION_ERROR, so every
\* call returns valid or one of the validation errors.
C14_ProbeDegrades ==
  audioResult.validation # NotCalled =>
    LET f == audioFile
        v == audioResult.validation
    IN  /\ v \in ValidationErrors \cup {Valid}
        /\ (f.size # Missing /\ f.statThrows)
             => v = AUDIO_FILE_VALIDATION_ERROR
        /\ (f.size >= MIN_VALID_FILE_SIZE /\ ~f.statThrows) =>
             /\ ~soxInstalled => v = Valid
             /\ (soxInstalled /\ f.probeOk) => v = Valid
             /\ (soxInstalled /\ ~f.probeOk) => v = AUDIO_FILE_INVALID_FORMAT

\* C14 witness: sox is absent and a file that sox would have rejected was
\* found valid by its size.
C14_Witness ==
  /\ ~soxInstalled
  /\ audioFile.size >= MIN_VALID_FILE_SIZE
  /\ ~audioFile.probeOk
  /\ audioResult.validation = Valid

\* r is num / den rounded to the nearest integer.
Nearest(r, num, den) ==
  /\ 2 * (den * r - num) <= den
  /\ 2 * (num - den * r) <= den

\* C15: getAudioDuration returns the duration sox printed, rounded to the
\* nearest second, when sox is present and printed a positive number;
\* otherwise it returns size / (16000 * 2) rounded to the nearest second (3
\* for 96000 bytes), and it throws only when that size cannot be read.
C15_DurationPrefersProbe ==
  audioResult.called =>
    LET f == audioFile
        d == audioResult.duration
        probed == soxInstalled /\ f.probe.kind = "number" /\ f.probe.tenths > 0
        sizeKnown == f.size # Missing /\ ~f.statThrows
    IN  /\ probed => (d.ok /\ Nearest(d.seconds, f.probe.tenths, 10))
        /\ (~probed /\ sizeKnown)
             => /\ d.ok
                /\ Nearest(d.seconds, f.size, 16000 * 2)
                /\ f.size = 96000 => d.seconds = 3
        /\ ~d.ok => (~probed /\ ~sizeKnown)

\* C15 witness: sox printed no usable duration for a 96000-byte file and
\* the call returned 3.
C15_Witness ==
  /\ audioResult.called
  /\ soxInstalled
  /\ audioFile.probe.kind = "nan"
  /\ audioFile.size = 96000
  /\ audioResult.duration = Seconds(3)

\* ------------------------------------------ generateAudioFilename in full
\* A string is the sequence of its characters.  A Date is the minute, second
\* and millisecond of one fixed hour of one fixed day.
RECORDING_FILE_FORMAT == <<"w", "a", "v">>
\* path.join(homedir(), ".raycast-speech-to-text-temp"), shortened.
DEFAULT_TEMP_DIR == <<"~", "/", ".", "t", "e", "m", "p">>
Dates == [m : 0..1, s : {0, 1, 59}, ms : {0, 1, 999}]
Digit(n) == CHOOSE c \in {"0", "1", "2", "3", "4", "5", "6", "7", "8", "9"} :
              c = ToString(n)
Pad2(n) == <<Digit(n \div 10), Digit(n % 10)>>
Pad3(n) == <<Digit(n \div 100), Digit((n \div 10) % 10), Digit(n % 10)>>

\* Milliseconds since the start of the hour.
getTime(d) == d.m * 60000 + d.s * 1000 + d.ms

\* Date.prototype.toISOString(): YYYY-MM-DDTHH:mm:ss.sssZ.
toISOString(d) ==
  <<"2", "0", "2", "4", "-", "0", "1", "-", "0", "1", "T", "1", "0", ":">>
  \o Pad2(d.m) \o <<":">> \o Pad2(d.s) \o <<".">> \o Pad3(d.ms) \o <<"Z">>

\* str.replace(/[:.]/, "-") without the g flag: the first match only.
ReplaceColonsAndPeriods_FirstOnly(str) ==
  LET hits == {i \in 1..Len(str) : str[i] \in {":", "."}}
  IN  [i \in 1..Len(str) |->
         IF i \in hits /\ \A j \in hits : i <= j THEN "-" ELSE str[i]]

\* str.replace(/[:.]/g, "-").
ReplaceColonsAndPeriods(str) ==
  [i \in 1..Len(str) |-> IF str[i] \in {":", "."} THEN "-" ELSE str[i]]

\* path.join(directory, name) for a directory without a trailing separator.
pathJoin(directory, name) == directory \o <<"/">> \o name

\* generateAudioFilename(directory) when new Date() is d.
generateAudioFilenameAt(directory, d) ==
  LET timestamp == ReplaceColonsAndPeriods(toISOString(d))
  IN  pathJoin(directory,
               <<"r", "e", "c", "o", "r", "d", "i", "n", "g", "-">>
               \o timestamp \o <<".">> \o RECORDING_FILE_FORMAT)

NamingInit ==
  /\ RecorderInit
  /\ HistoryIdle
  /\ CommandIdle
  /\ AudioIdle
  /\ named = << >>
  /\ CleanupIdle
  /\ TranscriptionIdle

\* path.basename(filePath): what follows the last separator.
basename(filePath) ==
  LET seps == {i \in 1..Len(filePath) : filePath[i] = "/"}
      last == IF seps = {} THEN 0
              ELSE CHOOSE i \in seps : \A j \in seps : j <= i
  IN  SubSeq(filePath, last + 1, Len(filePath))

\* fileName.match(/recording-(.+)\.wav$/)[1] for a name that starts with
\* "recording-"; the empty string when there is no match.
dateMatch(fileName) ==
  IF /\ Len(fileName) > 14
     /\ SubSeq(fileName, 1, 10) =
          <<"r", "e", "c", "o", "r", "d", "i", "n", "g", "-">>
     /\ SubSeq(fileName, Len(fileName) - 3, Len(fileName)) =
          <<".", "w", "a", "v">>
  THEN SubSeq(fileName, 11, Len(fileName) - 4)
  ELSE << >>

\* The replacer with every hyphen of the time part turned into ':'.
ReplaceHyphens_AllColons(str) ==
  [i \in 1..Len(str) |->
     IF str[i] = "-" /\ i - 1 > 10 THEN ":" ELSE str[i]]

\* Lines 45-49: str.replace(/-/g, (match, offset) => ...), offsets from 0.
ReplaceHyphens(str) ==
  [i \in 1..Len(str) |->
     IF str[i] # "-" THEN str[i]
     ELSE LET offset == i - 1
          IN  IF offset = 10 THEN "T"
              ELSE IF offset > 10
              THEN (IF offset = 13 \/ offset = 16 THEN ":" ELSE ".")
              ELSE "-"]

\* The value of new Date(str) for a string that is no date, and the
\* recordedAt of a file the loader has not read.
InvalidDate == [m |-> -1, s |-> -1, ms |-> -1]
NotLoaded == [m |-> -2, s |-> -2, ms |-> -2]

IsDigit(c) == c \in {"0", "1", "2", "3", "4", "5", "6", "7", "8", "9"}
DigitValue(c) == CHOOSE n \in 0..9 : ToString(n) = c

\* new Date(str) for the format YYYY-MM-DDTHH:mm:ss.sssZ, within the hour
\* of Dates; any other string gives an invalid Date.
DateParse(str) ==
  IF /\ Len(str) = 24
     /\ SubSeq(str, 1, 14) =
          <<"2", "0", "2", "4", "-", "0", "1", "-", "0", "1", "T", "1", "0",
            ":">>
     /\ str[17] = ":" /\ str[20] = "." /\ str[24] = "Z"
     /\ \A i \in {15, 16, 18, 19, 21, 22, 23} : IsDigit(str[i])
  THEN LET minutes == 10 * DigitValue(str[15]) + DigitValue(str[16])
           seconds == 10 * DigitValue(str[18]) + DigitValue(str[19])
           millis == 100 * DigitValue(str[21]) + 10 * DigitValue(str[22])
                       + DigitValue(str[23])
       IN  IF minutes < 60 /\ seconds < 60
           THEN [m |-> minutes, s |-> seconds, ms |-> millis]
           ELSE InvalidDate
  ELSE InvalidDate

\* loadFiles, lines 41-51: the date string rebuilt from the file name.
dateStr(filePath) == ReplaceHyphens(dateMatch(basename(filePath)))

\* loadFiles, line 51: recordedAt, from the name or else from the mtime.
recordedAt(filePath, mtime) ==
  IF dateStr(filePath) # << >> THEN DateParse(dateStr(filePath)) ELSE mtime

CallGenerateAudioFilename(d) ==
  /\ Len(named) < MaxNames
  /\ named' = Append(named,
                     [date |-> d,
                      path |-> generateAudioFilenameAt(DEFAULT_TEMP_DIR, d),
                      recordedAt |-> NotLoaded])
  /\ UNCHANGED <<recorderVars, historyVars, commandVars, audioVars, cleanupVars, transcriptionVars>>

\* loadFiles reads one of the files (lines 38-51); its mtime is the Date of
\* the call that named it or a later one.
LoadFile(i, mtime) ==
  /\ named[i].recordedAt = NotLoaded
  /\ getTime(mtime) >= getTime(named[i].date)
  /\ named' = [named EXCEPT ![i].recordedAt = recordedAt(named[i].path, mtime)]
  /\ UNCHANGED <<recorderVars, historyVars, commandVars, audioVars, cleanupVars, transcriptionVars>>

NamingNext ==
  \/ \E d \in Dates : CallGenerateAudioFilename(d)
  \/ \E i \in 1..Len(named), mtime \in Dates : LoadFile(i, mtime)

NamingSpec == NamingInit /\ [][NamingNext]_vars

\* The part of a returned path between "<directory>/recording-" and ".wav".
TimestampPart(path) ==
  SubSeq(path, Len(DEFAULT_TEMP_DIR) + 12, Len(path) - 4)

\* C16: every returned path is <directory>/recording-<timestamp>.wav, where
\* <timestamp> is the ISO timestamp with each ':' and '.' replaced by '-'
\* and so holds neither; two calls whose Dates are at least one second
\* apart return different paths.
C16_FilenameLegalAndDistinct ==
  /\ \A i \in 1..Len(named) :
       LET path == named[i].path
           iso == toISOString(named[i].date)
           ts == TimestampPart(path)
       IN  /\ SubSeq(path, 1, Len(DEFAULT_TEMP_DIR) + 11) =
                DEFAULT_TEMP_DIR
                \o <<"/", "r", "e", "c", "o", "r", "d", "i", "n", "g", "-">>
           /\ SubSeq(path, Len(path) - 3, Len(path)) = <<".", "w", "a", "v">>
           /\ Len(ts) = Len(iso)
           /\ \A k \in 1..Len(ts) :
                /\ ts[k] \notin {":", "."}
                /\ ts[k] = (IF iso[k] \in {":", "."} THEN "-" ELSE iso[k])
  /\ \A i, j \in 1..Len(named) :
       (getTime(named[j].date) - getTime(named[i].date) >= 1000)
         => named[i].path # named[j].path

\* C16 witness: two calls exactly one second apart returned two paths.
C16_Witness ==
  /\ Len(named) = 2
  /\ getTime(named[2].date) - getTime(named[1].date) = 1000
  /\ named[1].path # named[2].path

\* --------------------------------------------------- cleanupOldAudioFiles
\* fileAge > maxAge, read as >=.
Exceeds_OrEqual(fileAge, maxAge) == maxAge.finite /\ fileAge >= maxAge.ms

\* fileAge > maxAge, where nothing is greater than Infinity.
Exceeds(fileAge, maxAge) == maxAge.finite /\ fileAge > maxAge.ms

\* listAudioFiles(directory): the entries ending in .wav.
listAudioFiles ==
  {f \in TempNames : tempDir[f] # Missing /\ f.ext = "wav"}

CleanupInit ==
  /\ RecorderInit
  /\ HistoryIdle
  /\ CommandIdle
  /\ AudioIdle
  /\ NamingIdle
  /\ tempDir \in [TempNames -> Mtimes \cup {Missing}]
  /\ clock = StartClock
  /\ cleanup = NoCleanup
  /\ TranscriptionIdle

\* cleanupOldAudioFiles(directory, maxAge), lines 625-627: Date.now() is
\* read, then the audio files are listed; listThrows is readdir failing,
\* which the outer catch logs.
CleanupStart(maxAge, listThrows) ==
  /\ cleanup.pc = "idle"
  /\ cleanup' =
       IF listThrows
       THEN [cleanup EXCEPT !.pc = "done", !.now = clock, !.maxAge = maxAge]
       ELSE [cleanup EXCEPT !.pc = "loop", !.now = clock, !.maxAge = maxAge,
                            !.listed = listAudioFiles,
                            !.todo = listAudioFiles]
  /\ UNCHANGED <<recorderVars, historyVars, commandVars, audioVars, namingVars, transcriptionVars,
                 tempDir, clock>>

\* One iteration of the loop, lines 629-640, on file: stat, the age test,
\* unlink; a failure of stat or unlink is logged by the inner catch.
CleanupFile(file, statThrows, unlinkThrows) ==
  /\ cleanup.pc = "loop"
  /\ file \in cleanup.todo
  /\ LET mtimeMs == tempDir[file]
         fileAge == cleanup.now - mtimeMs
         outcome ==
           IF mtimeMs = Missing \/ statThrows THEN "error"
           ELSE IF ~Exceeds(fileAge, cleanup.maxAge) THEN "kept"
           ELSE IF unlinkThrows THEN "error"
           ELSE "deleted"
     IN  /\ tempDir' = IF outcome = "deleted"
                       THEN [tempDir EXCEPT ![file] = Missing]
                       ELSE tempDir
         /\ cleanup' =
              [cleanup EXCEPT
                 !.todo = @ \ {file},
                 !.seen = @ \cup {[file |-> file, mtimeMs |-> mtimeMs,
                                   outcome |-> outcome]}]
  /\ UNCHANGED <<recorderVars, historyVars, commandVars, audioVars, namingVars, transcriptionVars,
                 clock>>

\* The loop has run over every listed file: the call returns.
CleanupReturn ==
  /\ cleanup.pc = "loop"
  /\ cleanup.todo = {}
  /\ cleanup' = [cleanup EXCEPT !.pc = "done"]
  /\ UNCHANGED <<recorderVars, historyVars, commandVars, audioVars, namingVars, transcriptionVars,
                 tempDir, clock>>

\* Time passes while the call awaits.
ClockTick ==
  /\ cleanup.pc = "loop"
  /\ clock < MaxClock
  /\ clock' = clock + 1
  /\ UNCHANGED <<recorderVars, historyVars, commandVars, audioVars, namingVars, transcriptionVars,
                 tempDir, cleanup>>

\* Another part of the program writes a file while the call awaits.
TouchFile(file) ==
  /\ cleanup.pc = "loop"
  /\ tempDir[file] # clock
  /\ tempDir' = [tempDir EXCEPT ![file] = clock]
  /\ UNCHANGED <<recorderVars, historyVars, commandVars, audioVars, namingVars, transcriptionVars,
                 clock, cleanup>>

CleanupNext ==
  \/ \E maxAge \in MaxAges, listThrows \in BOOLEAN :
       CleanupStart(maxAge, listThrows)
  \/ \E file \in TempNames, statThrows \in BOOLEAN, unlinkThrows \in BOOLEAN :
       CleanupFile(file, statThrows, unlinkThrows)
  \/ CleanupReturn
  \/ ClockTick
  \/ \E file \in TempNames : TouchFile(file)

CleanupSpec == CleanupInit /\ [][CleanupNext]_vars

\* C17: a file is removed from the directory only by the cleanup, only when
\* it is a listed audio file whose age, now minus its modification time, is
\* strictly greater than maxAge; a file the cleanup keeps has an age not
\* greater than maxAge; so maxAge = 0 keeps exactly the files modified at
\* `now` or later and an infinite maxAge deletes nothing; a file is skipped
\* only for a stat or unlink failure, after which the remaining files are
\* still processed: the call returns, without throwing, only when every
\* listed file has been processed.
C17_PruneByAge ==
  /\ [][\A f \in TempNames :
          (tempDir[f] # Missing /\ tempDir'[f] = Missing)
            => /\ f \in cleanup.listed
               /\ f.ext = "wav"
               /\ cleanup.maxAge.finite
               /\ cleanup.now - tempDir[f] > cleanup.maxAge.ms]_vars
  /\ [](\A r \in cleanup.seen :
          /\ r.outcome = "deleted"
               => (cleanup.maxAge.finite
                   /\ cleanup.now - r.mtimeMs > cleanup.maxAge.ms)
          /\ r.outcome = "kept"
               => (~cleanup.maxAge.finite
                   \/ cleanup.now - r.mtimeMs <= cleanup.maxAge.ms)
          /\ (r.outcome = "kept" /\ cleanup.maxAge = [finite |-> TRUE, ms |-> 0])
               => r.mtimeMs >= cleanup.now
          /\ ~cleanup.maxAge.finite => r.outcome # "deleted")
  /\ [](cleanup.pc = "done" =>
          /\ ~cleanup.threw
          /\ {r.file : r \in cleanup.seen} = cleanup.listed)

\* C17 witness: with maxAge = 0 the call has returned after deleting an
\* older recording, keeping one modified at `now`, with a failure on
\* neither.
C17_Witness ==
  /\ cleanup.pc = "done"
  /\ cleanup.maxAge = [finite |-> TRUE, ms |-> 0]
  /\ \E r1, r2 \in cleanup.seen :
       /\ r1.outcome = "deleted"
       /\ r2.outcome = "kept"
       /\ r2.mtimeMs = cleanup.now

\* ------------------------------------------------------------ transcription
\* b ?? a, taken for a ?? b.
Coalesce_PreferenceFirst(a, b) == IF b # Undefined THEN b ELSE a

\* a ?? b.
Coalesce(a, b) == IF a # Undefined THEN a ELSE b

\* transcribeAudio, lines 42-47: the language of the request, Undefined when
\* the request carries none.
RequestLanguage(overrideLanguage, preferenceLanguage) ==
  LET language == Coalesce(overrideLanguage, preferenceLanguage)
  IN  IF language # Undefined /\ language # "" /\ language # "auto"
      THEN language
      ELSE Undefined

\* saveTranscription: { ...transcriptionData, audioFile: audioFilePath }.
SavedTranscription(audioFilePath, text) ==
  [exists |-> TRUE, keys |-> {"text", "timestamp", "audioFile"},
   text |-> text, audioFile |-> audioFilePath]

\* handleTranscribe, lines 118-121: { text, timestamp }.
HistoryTranscription(text) ==
  [exists |-> TRUE, keys |-> {"text", "timestamp"}, text |-> text,
   audioFile |-> NoName]

\* Messages of the errors transcribeAudio throws (lines 17, 67-69, 74-76, 80).
API_KEY_MESSAGE == "Groq API key is not set."
RATE_LIMIT_MESSAGE == "Groq API rate limit exceeded."
MALFORMED_MESSAGE == "The API couldn't process this audio file."
GENERIC_MESSAGE == "Failed to transcribe audio: "
SAVE_MESSAGE == "Failed to save transcription: "

\* The catch block with the test for "400" before the rate-limit test.
classifyError_MalformedFirst(error) ==
  IF "400" \in error.includes
  THEN [message |-> MALFORMED_MESSAGE, upstream |-> NoUpstream]
  ELSE IF error.includes \cap {"rate limit", "429", "too many requests"} # {}
  THEN [message |-> RATE_LIMIT_MESSAGE, upstream |-> NoUpstream]
  ELSE [message |-> GENERIC_MESSAGE, upstream |-> error]

\* transcribeAudio, lines 61-81: the error thrown for a caught Error.
classifyError(error) ==
  IF error.includes \cap {"rate limit", "429", "too many requests"} # {}
  THEN [message |-> RATE_LIMIT_MESSAGE, upstream |-> NoUpstream]
  ELSE IF "400" \in error.includes
  THEN [message |-> MALFORMED_MESSAGE, upstream |-> NoUpstream]
  ELSE [message |-> GENERIC_MESSAGE, upstream |-> error]

\* transcribeAudio goes on to saveTranscription whatever the service did.
AfterCreate_AlwaysSaves(ok) == "saveTranscription"

\* transcribeAudio, lines 50-61: saveTranscription follows the awaited
\* create() only when it did not throw.
AfterCreate(ok) == IF ok THEN "saveTranscription" ELSE "done"

TranscriptionInit ==
  /\ RecorderInit
  /\ HistoryIdle
  /\ CommandIdle
  /\ AudioIdle
  /\ NamingIdle
  /\ CleanupIdle
  /\ preferences \in [apiKey : BOOLEAN, language : {Undefined, "auto", "en"}]
  /\ sidecars \in [SidecarNames -> {NoSidecar} \cup
                                     {SavedTranscription(f, 0) : f \in AudioNames}]
  /\ \A f \in AudioNames :
       sidecars[SidecarPath(f)].exists
         => sidecars[SidecarPath(f)].audioFile = f
  /\ transcription = NoTranscription
  /\ nTranscribes = 0

\* A command calls transcribeAudio(filePath, overrideLanguage): the
\* recording command with the language of its form, the history view
\* (handleTranscribe) with none.  Lines 14-47: without an API key it throws,
\* otherwise the request is built.
TranscribeCall(origin, filePath, overrideLanguage) ==
  /\ transcription.pc \in {"idle", "done"}
  /\ nTranscribes < MaxTranscribes
  /\ origin = "history" => overrideLanguage = Undefined
  /\ nTranscribes' = nTranscribes + 1
  /\ LET t == [NoTranscription EXCEPT !.origin = origin, !.file = filePath,
                                      !.before = sidecars[SidecarPath(filePath)],
                                      !.overrideLanguage = overrideLanguage]
     IN  transcription' =
           IF ~preferences.apiKey
           THEN [t EXCEPT !.pc = "done", !.outcome = "threw",
                          !.thrown = [message |-> API_KEY_MESSAGE,
                                      upstream |-> NoUpstream]]
           ELSE [t EXCEPT !.pc = "create", !.sent = TRUE,
                          !.language =
                            RequestLanguage(overrideLanguage,
                                            preferences.language)]
  /\ UNCHANGED <<recorderVars, historyVars, commandVars, audioVars, namingVars, cleanupVars,
                 preferences, sidecars>>

\* client.audio.transcriptions.create() returns the text, or throws error,
\* which the catch block classifies and throws on.
ServiceReply(ok, error) ==
  /\ transcription.pc = "create"
  /\ ok => error = NoUpstream
  /\ ~ok => error \in UpstreamErrors
  /\ transcription' =
       [transcription EXCEPT
          !.pc = AfterCreate(ok),
          !.serviceOk = ok,
          !.text = IF ok THEN nTranscribes ELSE 0,
          !.outcome = IF AfterCreate(ok) = "done" THEN "threw" ELSE @,
          !.caught = error,
          !.thrown = IF ok THEN NoThrown ELSE classifyError(error)]
  /\ UNCHANGED <<recorderVars, historyVars, commandVars, audioVars, namingVars, cleanupVars,
                 preferences, sidecars, nTranscribes>>

\* saveTranscription(filePath, result), lines 91-109; writeThrows is
\* fs.writeJSON failing, which transcribeAudio rethrows.
SaveTranscription(writeThrows) ==
  /\ transcription.pc = "saveTranscription"
  /\ IF writeThrows
     THEN /\ \E includes \in {{}, {"429"}} :
             \* the file system's message names the path, whose timestamp
             \* may hold the digits of a pattern
             LET error == [text |-> SAVE_MESSAGE, includes |-> includes]
             IN  transcription' =
                   [transcription EXCEPT !.pc = "done", !.outcome = "threw",
                                         !.caught = error,
                                         !.thrown = classifyError(error)]
          /\ UNCHANGED sidecars
     ELSE /\ sidecars' =
               [sidecars EXCEPT ![SidecarPath(transcription.file)] =
                  SavedTranscription(transcription.file, transcription.text)]
          /\ transcription' =
               IF transcription.origin = "history"
               THEN [transcription EXCEPT !.pc = "historyWrite"]
               ELSE [transcription EXCEPT !.pc = "done",
                                          !.outcome = "returned"]
  /\ UNCHANGED <<recorderVars, historyVars, commandVars, audioVars, namingVars, cleanupVars,
                 preferences, nTranscribes>>

\* handleTranscribe, lines 116-121: after transcribeAudio returned, the
\* history view writes the sidecar again.
HistoryWrite(writeThrows) ==
  /\ transcription.pc = "historyWrite"
  /\ IF writeThrows
     THEN /\ transcription' = [transcription EXCEPT !.pc = "done",
                                                    !.outcome = "threw"]
          /\ UNCHANGED sidecars
     ELSE /\ sidecars' =
               [sidecars EXCEPT ![SidecarPath(transcription.file)] =
                  HistoryTranscription(transcription.text)]
          /\ transcription' = [transcription EXCEPT !.pc = "done",
                                                    !.outcome = "returned"]
  /\ UNCHANGED <<recorderVars, historyVars, commandVars, audioVars, namingVars, cleanupVars,
                 preferences, nTranscribes>>

TranscriptionNext ==
  \/ \E origin \in {"command", "history"}, filePath \in AudioNames,
        overrideLanguage \in Languages :
       TranscribeCall(origin, filePath, overrideLanguage)
  \/ \E ok \in BOOLEAN, error \in UpstreamErrors \cup {NoUpstream} :
       ServiceReply(ok, error)
  \/ \E writeThrows \in BOOLEAN : SaveTranscription(writeThrows)
  \/ \E writeThrows \in BOOLEAN : HistoryWrite(writeThrows)

TranscriptionSpec == TranscriptionInit /\ [][TranscriptionNext]_vars

\* C18: every sidecar on disk, once no transcribe operation is in progress,
\* is an object with the keys text, timestamp and audioFile, and its
\* audioFile is the audio file whose sidecar it is.
C18_SidecarHasThreeFields ==
  transcription.pc \in {"idle", "done"} =>
    \A f \in AudioNames :
      sidecars[SidecarPath(f)].exists =>
        /\ sidecars[SidecarPath(f)].keys = {"text", "timestamp", "audioFile"}
        /\ sidecars[SidecarPath(f)].audioFile = f

\* C19: a sidecar changes only in a transcribe operation on its audio file
\* whose service call has succeeded; an operation that failed for a missing
\* API key or a service error leaves the sidecar as it was when called.
C19_SidecarOnlyAfterSuccess ==
  /\ [][\A f \in AudioNames :
          sidecars'[SidecarPath(f)] # sidecars[SidecarPath(f)]
            => /\ transcription.file = f
               /\ transcription.sent
               /\ transcription.serviceOk
               /\ preferences.apiKey]_vars
  /\ [](( /\ transcription.pc = "done"
          /\ ~transcription.serviceOk)
        => /\ transcription.outcome = "threw"
           /\ sidecars[SidecarPath(transcription.file)] = transcription.before)

\* C19 witness: the service failed during a re-transcription and the
\* existing sidecar is still the one written before.
C19_Witness ==
  /\ transcription.pc = "done"
  /\ transcription.sent
  /\ ~transcription.serviceOk
  /\ transcription.before.exists
  /\ sidecars[SidecarPath(transcription.file)] = transcription.before

\* C20: the request carries a language exactly when the effective language,
\* the override when one was passed and the preference otherwise, is set
\* (neither undefined nor empty) and is not "auto", and then it carries
\* that language; an override of "auto" leaves the language out whatever
\* the preference is.
C20_LanguageUnlessAuto ==
  transcription.sent =>
    LET override == transcription.overrideLanguage
        effective == IF override # Undefined THEN override
                                             ELSE preferences.language
        carried == transcription.language # Undefined
    IN  /\ carried <=> effective \notin {Undefined, "", "auto"}
        /\ carried => transcription.language = effective
        /\ override = "auto" => ~carried

\* C20 witness: the preference is "en", the override is "auto" and the
\* request was sent without a language.
C20_Witness ==
  /\ transcription.sent
  /\ preferences.language = "en"
  /\ transcription.overrideLanguage = "auto"
  /\ transcription.language = Undefined

\* C21: when the transcription client throws, transcribeAudio throws one
\* error: the rate-limit message when the upstream message includes "rate
\* limit", "429" or "too many requests", also when it includes "400" as
\* well; the malformed-input message when it includes "400" only; and
\* otherwise the generic message with the upstream message appended.
C21_ErrorClassified ==
  (transcription.sent /\ transcription.pc = "done"
     /\ ~transcription.serviceOk) =>
    LET e == transcription.caught
        rate == e.includes \cap {"rate limit", "429", "too many requests"} # {}
        bad == "400" \in e.includes
        t == transcription.thrown
    IN  /\ transcription.outcome = "threw"
        /\ t.message \in {RATE_LIMIT_MESSAGE, MALFORMED_MESSAGE, GENERIC_MESSAGE}
        /\ rate => t.message = RATE_LIMIT_MESSAGE
        /\ (bad /\ ~rate) => t.message = MALFORMED_MESSAGE
        /\ (~bad /\ ~rate) => (t.message = GENERIC_MESSAGE /\ t.upstream = e)
        /\ t.message # GENERIC_MESSAGE => t.upstream = NoUpstream

\* C21 witness: an upstream error matching both patterns was thrown on as
\* the rate-limit error.
C21_Witness ==
  /\ transcription.pc = "done"
  /\ transcription.caught.includes = {"429", "400"}
  /\ transcription.thrown.message = RATE_LIMIT_MESSAGE

\* C22: a stopRecording() that returns a path returns a file whose duration
\* estimated from its size is within one second of the value of the
\* elapsed-time counter, whatever the order of ticks, writes, exit and stop.
C22_CounterMatchesFile ==
  [][(StopReturned /\ returned'.result # NoPath) =>
       LET estimate == estimateDurationFromFileSize(files[returned'.result],
                                                    FALSE)
       IN  /\ estimate.ok
           /\ estimate.seconds - state.recordingDuration \in -1..1]_vars

\* C23: when the capture process of the current session closes by itself
\* (exit code 0, no signal sent: the maximum duration was reached) while
\* the state is Recording, the close handler sets isRecording to false and
\* cancels the timer of the session.
C23_OwnCloseEndsSession ==
  [][\A p \in 1..Len(procs) :
       (/\ Alive(p)
        /\ ~procs[p].signalled
        /\ recordingProcess = p
        /\ state.isRecording
        /\ procs'[p].status = "exited"
        /\ procs'[p].exitCode = 0) =>
         /\ ~state'.isRecording
         /\ durationInterval' = NoRef
         /\ durationInterval \notin timers']_vars

\* C24: when the process of a session emits 'error', the handler records
\* the process-error message in the error state, sets isRecording to false
\* (while the component is mounted) and cancels the timer of that session,
\* which never ticks again; no call throws or returns because of it.
C24_ProcessErrorReported ==
  /\ [][\A p \in 1..Len(procs) :
          (Alive(p) /\ procs'[p].status = "failed") =>
            /\ mounted => /\ state'.error = RECORDING_PROCESS_ERROR
                           /\ ~state'.isRecording
            /\ durationInterval' = NoRef
            /\ p \notin timers'
            /\ calls' = calls
            /\ returned' = returned]_vars
  /\ [](\A p \in 1..Len(procs) : procs[p].status = "failed" => p \notin timers)

\* C24 witness: a launched process has failed with the timer of its session
\* scheduled before, and the error is in the state.
C24_Witness ==
  \E p \in 1..Len(procs) :
    /\ procs[p].status = "failed"
    /\ state.error = RECORDING_PROCESS_ERROR
    /\ ~state.isRecording
    /\ timers = {}

\* -------------------------------------------------- the recording command

\* Line 57 with the test left out: the audio is submitted whatever
\* stopRecording() resolved to.
Submits_Always(recordingFilePath) == TRUE

\* handleStopRecording, line 57: `if (recordingFilePath)`.
Submits(recordingFilePath) == recordingFilePath # NoName

\* The handler is inside its try block (lines 58-101).
InTry(h) == h.pc \in {"showToast", "transcribeAudio", "copy", "catch"}

CommandInit ==
  /\ RecorderInit
  /\ HistoryIdle
  /\ AudioIdle
  /\ NamingIdle
  /\ CleanupIdle
  /\ TranscriptionIdle
  /\ CommandIdle

\* The Stop Recording action: handleStopRecording() is invoked and awaits
\* stopRecording() (line 55).
HandleStopRecording ==
  /\ Len(handlers) < MaxStops
  /\ handlers' = Append(handlers, [pc |-> "stopRecording",
                                    recordingFilePath |-> NoName])
  /\ UNCHANGED <<recorderVars, historyVars, audioVars, namingVars, cleanupVars,
                 transcriptionVars, isTranscribing, submissions>>

\* stopRecording() resolves to a path or to null (lines 55-59): with a path
\* the handler sets isTranscribing and awaits the toast; with null it ends.
StopResolves(h, result) ==
  /\ handlers[h].pc = "stopRecording"
  /\ IF Submits(result)
     THEN /\ isTranscribing' = TRUE
          /\ handlers' = [handlers EXCEPT ![h].pc = "showToast",
                                          ![h].recordingFilePath = result]
     ELSE /\ handlers' = [handlers EXCEPT ![h].pc = "done"]
          /\ UNCHANGED isTranscribing
  /\ UNCHANGED <<recorderVars, historyVars, audioVars, namingVars, cleanupVars,
                 transcriptionVars, submissions>>

\* Lines 69-84: after the toast the arguments are evaluated (getSelectedText
\* may reject) and transcribeAudio() is called with the path.
CallTranscribeAudio(h, contextThrows) ==
  /\ handlers[h].pc = "showToast"
  /\ IF contextThrows
     THEN /\ handlers' = [handlers EXCEPT ![h].pc = "catch"]
          /\ UNCHANGED submissions
     ELSE /\ handlers' = [handlers EXCEPT ![h].pc = "transcribeAudio"]
          /\ submissions' = Append(submissions,
                                   [handler |-> h,
                                    file |-> handlers[h].recordingFilePath])
  /\ UNCHANGED <<recorderVars, historyVars, audioVars, namingVars, cleanupVars,
                 transcriptionVars, isTranscribing>>

\* transcribeAudio() resolves (lines 85-94) or rejects (lines 95-101).
TranscribeAudioSettles(h, ok) ==
  /\ handlers[h].pc = "transcribeAudio"
  /\ handlers' = [handlers EXCEPT ![h].pc = IF ok THEN "copy" ELSE "catch"]
  /\ UNCHANGED <<recorderVars, historyVars, audioVars, namingVars, cleanupVars,
                 transcriptionVars, isTranscribing, submissions>>

\* The clipboard copy and the toasts are done, or one of them rejected: the
\* finally block runs (lines 102-104).
Finally(h) ==
  /\ handlers[h].pc \in {"copy", "catch"}
  /\ handlers' = [handlers EXCEPT ![h].pc = "done"]
  /\ isTranscribing' = FALSE
  /\ UNCHANGED <<recorderVars, historyVars, audioVars, namingVars, cleanupVars,
                 transcriptionVars, submissions>>

CommandNext ==
  \/ HandleStopRecording
  \/ \E h \in 1..Len(handlers), result \in AudioNames \cup {NoName} :
       StopResolves(h, result)
  \/ \E h \in 1..Len(handlers), contextThrows \in BOOLEAN :
       CallTranscribeAudio(h, contextThrows)
  \/ \E h \in 1..Len(handlers), ok \in BOOLEAN : TranscribeAudioSettles(h, ok)
  \/ \E h \in 1..Len(handlers) : Finally(h)

CommandSpec == CommandInit /\ [][CommandNext]_vars

\* C25: the command calls transcribeAudio() only for a stopRecording() that
\* returned a path, with that path, and at most once for each stop; a stop
\* that returned null submits nothing.  isTranscribing is true only while a
\* handler is between setting it and its finally block, and the finally
\* block of every handler, after success or failure, sets it to false.
C25_SubmitOncePerReturnedPath ==
  /\ [](/\ \A i \in 1..Len(submissions) :
             /\ handlers[submissions[i].handler].recordingFilePath # NoName
             /\ submissions[i].file =
                  handlers[submissions[i].handler].recordingFilePath
        /\ \A i, j \in 1..Len(submissions) :
             submissions[i].handler = submissions[j].handler => i = j
        /\ isTranscribing => \E h \in 1..Len(handlers) : InTry(handlers[h]))
  /\ [][\A h \in 1..Len(handlers) :
          (InTry(handlers[h]) /\ handlers'[h].pc = "done") =>
            ~isTranscribing']_vars

\* C25 witness: one stop returned a path and was submitted once, its call
\* failed and isTranscribing is false again; another stop returned null and
\* submitted nothing.
C25_Witness ==
  /\ Len(handlers) = 2
  /\ handlers[1].pc = "done"
  /\ handlers[1].recordingFilePath # NoName
  /\ handlers[2].pc = "done"
  /\ handlers[2].recordingFilePath = NoName
  /\ Len(submissions) = 1
  /\ submissions[1].handler = 1
  /\ ~isTranscribing

\* C26: a startRecording() that is rejected because a recording is already
\* in progress (the state is Recording and the process of the session is
\* capturing) changes nothing of the session: isRecording, recordingPath,
\* recordingDuration, error, the process handle and the timer are as before.
C26_RejectedStartChangesNothing ==
  [][(StartCalled /\ state.isRecording /\ recordingProcess \in Capturing
        /\ returned'.kind = "start"
        /\ returned'.steps = <<"alreadyRecording">>) =>
       /\ state' = state
       /\ recordingProcess' = recordingProcess
       /\ durationInterval' = durationInterval
       /\ timers' = timers
       /\ procs' = procs]_vars

\* C27: when a stopRecording() validates the file, the process it sent the
\* signal to has exited: its close event came before the validation.
C27_ValidateAfterClose ==
  [][(StopReturned /\ returned'.steps[Len(returned'.steps)] = "validate") =>
       procs[returned'.proc].status = "exited"]_vars

\* C28: a stopRecording() that stopped a session (the path of its closure is
\* the file of the process it sent the signal to) and returns while a newer
\* session, started during its delay, is capturing, has validated the file
\* of the session it stopped and returns that path or null; the step does
\* not touch the process, the refs or the timer of the newer session.
C28_StopKeepsItsSession ==
  [][(/\ StopReturned
      /\ returned'.steps[Len(returned'.steps)] = "validate"
      /\ returned'.cPath = procs[returned'.proc].file
      /\ recordingProcess \in Capturing
      /\ recordingProcess # returned'.proc) =>
       /\ returned'.result \in {NoPath, procs[returned'.proc].file}
       /\ returned'.result # NoPath =>
            \E statThrows, probeOk \in BOOLEAN :
              validateAudioFile(files[procs[returned'.proc].file], statThrows,
                                checkSoxInstalled, probeOk) = Valid
       /\ state'.recordingPath = state.recordingPath
       /\ state'.isRecording = state.isRecording
       /\ recordingProcess' = recordingProcess
       /\ durationInterval' = durationInterval
       /\ procs' = procs
       /\ timers' = timers]_vars

\* C28 witness: a stop has returned the path of the session it stopped while
\* a newer session, launched during its delay, is recording another file
\* with its process capturing and its timer scheduled.
C28_Witness ==
  /\ returned.kind = "stop"
  /\ returned.result # NoPath
  /\ returned.result = procs[returned.proc].file
  /\ recordingProcess \in Capturing
  /\ recordingProcess # returned.proc
  /\ durationInterval = recordingProcess
  /\ durationInterval \in timers
  /\ state.isRecording
  /\ state.recordingPath = procs[recordingProcess].file
  /\ state.recordingPath # returned.result

\* ------------------------------------------------------- the history view

HistoryInit ==
  /\ RecorderInit
  /\ AudioIdle
  /\ NamingIdle
  /\ CleanupIdle
  /\ TranscriptionIdle
  /\ CommandIdle
  /\ HistoryIdle

\* The Transcribe or Re-transcribe action of a recording (lines 283-303): the
\* action is shown whatever activeTranscriptions holds, and handleTranscribe
\* sets the flag of the file and awaits the toast (lines 104-112).
HandleTranscribe(file) ==
  /\ Len(jobs) < MaxJobs
  /\ activeTranscriptions' = [activeTranscriptions EXCEPT ![file] = TRUE]
  /\ jobs' = Append(jobs, [file |-> file, pc |-> "showToast"])
  /\ UNCHANGED <<recorderVars, audioVars, namingVars, cleanupVars,
                 transcriptionVars, commandVars>>

\* Line 114: transcribeAudio(file.filePath) is called.
HistoryCallsTranscribeAudio(j) ==
  /\ jobs[j].pc = "showToast"
  /\ jobs' = [jobs EXCEPT ![j].pc = "transcribeAudio"]
  /\ UNCHANGED <<recorderVars, audioVars, namingVars, cleanupVars,
                 transcriptionVars, commandVars, activeTranscriptions>>

\* transcribeAudio() resolves and the sidecar is written (lines 117-121), or
\* it rejects (lines 141-148).
HistoryTranscribeSettles(j, ok) ==
  /\ jobs[j].pc = "transcribeAudio"
  /\ jobs' = [jobs EXCEPT ![j].pc = IF ok THEN "writeJSON" ELSE "catch"]
  /\ UNCHANGED <<recorderVars, audioVars, namingVars, cleanupVars,
                 transcriptionVars, commandVars, activeTranscriptions>>

\* The finally block (lines 149-151) clears the flag of the file.
HistoryFinally(j) ==
  /\ jobs[j].pc \in {"writeJSON", "catch"}
  /\ jobs' = [jobs EXCEPT ![j].pc = "done"]
  /\ activeTranscriptions' =
       [activeTranscriptions EXCEPT ![jobs[j].file] = FALSE]
  /\ UNCHANGED <<recorderVars, audioVars, namingVars, cleanupVars,
                 transcriptionVars, commandVars>>

HistoryNext ==
  \/ \E file \in AudioNames : HandleTranscribe(file)
  \/ \E j \in 1..Len(jobs) : HistoryCallsTranscribeAudio(j)
  \/ \E j \in 1..Len(jobs), ok \in BOOLEAN : HistoryTranscribeSettles(j, ok)
  \/ \E j \in 1..Len(jobs) : HistoryFinally(j)

HistorySpec == HistoryInit /\ [][HistoryNext]_vars

\* The handleTranscribe() invocations of a file that have not finished.
Active(file) ==
  {j \in 1..Len(jobs) : jobs[j].file = file /\ jobs[j].pc # "done"}

\* The transcribeAudio() calls of the history view for a file in flight.
InFlight(file) ==
  {j \in 1..Len(jobs) : jobs[j].file = file /\ jobs[j].pc = "transcribeAudio"}

\* C29: at most one transcription request of a recording is in flight at a
\* time: Transcribe on a recording whose activeTranscriptions flag is true
\* starts no second handler, hence no second service call nor sidecar write,
\* and the flag is false once no handler of the recording is unfinished.
C29_OneTranscriptionPerRecording ==
  /\ [](\A file \in AudioNames :
          /\ Cardinality(InFlight(file)) <= 1
          /\ Active(file) = {} => ~activeTranscriptions[file])
  /\ [][\A file \in AudioNames :
          activeTranscriptions[file] =>
            {j \in 1..Len(jobs') : jobs'[j].file = file} =
            {j \in 1..Len(jobs) : jobs[j].file = file}]_vars

\* C30: the date the history loader rebuilds from a generated file name is
\* the Date the name was generated from, to the millisecond: the rebuilt
\* string has ':' for the hyphens at offsets 13 and 16, '.' for the later
\* one, '-' for the earlier ones, and is the ISO string of that Date.
C30_FilenameRoundTrip ==
  \A i \in 1..Len(named) :
    named[i].recordedAt # NotLoaded =>
      /\ dateStr(named[i].path) = toISOString(named[i].date)
      /\ named[i].recordedAt = named[i].date
      /\ getTime(named[i].recordedAt) = getTime(named[i].date)

\* C30 witness: a name generated at 59 s 999 ms was read back by the loader
\* as that Date.
C30_Witness ==
  \E i \in 1..Len(named) :
    /\ named[i].date = [m |-> 0, s |-> 59, ms |-> 999]
    /\ named[i].recordedAt = named[i].date

====
